---------------------------- MODULE Spec2Model ----------------------------
(***************************************************************************)
(* The schedule optimisation engine of src/services/schedule_optimizer.py  *)
(* (class ScheduleOptimizer) as a state machine.                           *)
(*                                                                         *)
(* The state is the part of the database the engine reads (the project    *)
(* row, the project's task rows in the order the query returns them with   *)
(* their durations and dates, the task_dependencies table, the project's   *)
(* resources and the resource_assignments table), the optimizer object of  *)
(* the request, the arguments of one call of optimize_project_schedule,    *)
(* the local dictionaries of _find_critical_path, and how the call ended   *)
(* (a returned dictionary or a raised exception).                          *)
(*                                                                         *)
(* Quantities that the code multiplies by 1.1, 1.2 or 0.2, and the sums    *)
(* that add them up, are kept in tenths (Tenths), so that they stay        *)
(* integers.                                                               *)
(*                                                                         *)
(* Task ids are primary keys of the tasks table.  The ids of TaskIds that  *)
(* are not in `tasks` are tasks of other projects: a dependency row may    *)
(* name one as its predecessor (the column is a foreign key into the whole *)
(* tasks table, src/models.py:599).                                        *)
(*                                                                         *)
(* A call runs in steps: the checks and the dispatch of                    *)
(* optimize_project_schedule, then, for type 'time', the forward pass, the *)
(* backward pass and the selection of the critical tasks with the return;  *)
(* for the types 'cost' and 'resource', the optimizer in one step.  After  *)
(* the return (or the exception) the handler answers and the next request  *)
(* starts from a new optimizer.                                            *)
(*                                                                         *)
(* Spec runs calls of every type on projects of up to MaxTasks tasks and   *)
(* MaxDeps dependency rows; SpecCost runs cost calls on resources and      *)
(* assignments; SpecResource runs resource calls on tasks with dates and   *)
(* assignments; SpecConcurrent interleaves the steps of two requests.      *)
(* SpecTime and SpecCompression run time calls on four tasks, the first    *)
(* over their windows and dependencies, the second over their durations;   *)
(* SpecCapacity runs resource calls over the resources' capacities and     *)
(* SpecPricing cost calls over their prices.                               *)
(***************************************************************************)
EXTENDS Integers, Sequences, FiniteSets, TLC

\* ------------------------------------------------------------------ bounds

\* Number of rows in the tasks table (ids 1..MaxTasks).
MaxTasks == 2

\* Number of rows of task_dependencies.
MaxDeps == 2

\* Number of resources of the project (ids 1..MaxResources).
MaxResources == 1

\* Number of rows of resource_assignments.
MaxAssignments == 2

\* Number of tasks of the project whose resource conflicts are looked for.
MaxConflictTasks == 4

TaskIds == 1..MaxTasks

\* Task.duration is an Integer column that no handler validates
\* (src/blueprints/scheduling.py:123-124 stores the request's value), so
\* a negative number of days is storable.
Durations == {-1, 0, 1, 2}

\* TaskDependency.lag_days: an Integer column, negative for lead time.
Lags == {-1, 0, 1}

\* TaskDependency.dependency_type (default 'FS').  _find_critical_path never
\* reads the column.
DependencyTypes == {"FS"}

\* NULL in a nullable column (Resource.unit_cost, total_quantity and
\* available_quantity are nullable Floats; src/blueprints/projects.py:148-150
\* stores request.json.get(...), which is None for an absent key).
None == -1

\* Resource.type
ResourceTypes == {"labor"}

\* Resource.unit_cost: absent or zero (both false in `if resource.unit_cost`),
\* or a price.
UnitCosts == {0, 10}

\* Resource.total_quantity
TotalQuantities == {None, 0, 100}

\* ResourceAssignment.quantity
Quantities == {25, 45, 50}

\* The optimization_type strings a request may carry
\* (src/blueprints/scheduling.py:157: request.json.get('type', 'time')).
RequestedTypes == {"time", "cost", "resource", "budget"}

\* ----------------------------------------------------------------- helpers

Range(s) == {s[i] : i \in DOMAIN s}

Max(S) == CHOOSE x \in S : \A y \in S : y <= x

Min(S) == CHOOSE x \in S : \A y \in S : x <= y

RECURSIVE Sum(_, _)
Sum(f, S) == IF S = {} THEN 0
             ELSE LET x == CHOOSE y \in S : TRUE
                  IN f[x] + Sum(f, S \ {x})

\* dict.get(key, default)
Get(d, k, default) == IF k \in DOMAIN d THEN d[k] ELSE default

\* d[k] = v on a dictionary
Put(d, k, v) == [x \in (DOMAIN d) \cup {k} |-> IF x = k THEN v ELSE d[x]]

EmptyDict == [x \in {} |-> 0]

\* A number of units, in tenths of the unit.
Tenths(x) == 10 * x

\* `if x` on a nullable Float column
Truthy(x) == x # None /\ x # 0

\* s[:n]
Take(s, n) == SubSeq(s, 1, IF Len(s) < n THEN Len(s) ELSE n)

\* sum(opt.get(key, 0) for opt in opts)
RECURSIVE SumOf(_, _)
SumOf(key, opts) ==
    IF Len(opts) = 0 THEN 0
    ELSE (IF key \in DOMAIN Head(opts) THEN Head(opts)[key] ELSE 0)
         + SumOf(key, Tail(opts))

\* The ids of S as a list, in increasing order.
RECURSIVE Ascending(_)
Ascending(S) ==
    IF S = {} THEN <<>>
    ELSE LET x == Min(S) IN <<x>> \o Ascending(S \ {x})

\* The rows a task_dependencies table may hold: each relates two different
\* tasks, of any project, in either direction of their ids.
DependencyRows ==
    {row \in [task_id : TaskIds, predecessor_task_id : TaskIds,
              dependency_type : DependencyTypes, lag_days : Lags] :
        row.task_id # row.predecessor_task_id}

RECURSIVE SubsetsUpTo(_, _)
SubsetsUpTo(S, n) ==
    IF n = 0 THEN {{}}
    ELSE LET smaller == SubsetsUpTo(S, n - 1)
         IN smaller \cup {T \cup {x} : T \in smaller, x \in S}

\* ------------------------------------------------------------------- state

VARIABLES
    tasks,              \* Task.query.filter_by(project_id=...).all(): ids, in result order
    duration,           \* task.duration of each task of the project
    TaskDependency,     \* the task_dependencies table
    start_date, end_date,   \* task.start_date, task.end_date: day numbers
    project,            \* Project.query.get(project_id): start_date, end_date
    resources,          \* Resource.query.filter_by(project_id=...).all()
    assignments,        \* the resource_assignments table, in primary-key order
    self,               \* the ScheduleOptimizer object of the request
    peer,               \* a second request in flight: its optimizer and locals
    optimization_type,  \* argument of the call ("" before the call)
    pc,                 \* where the call is
    earliest_start, earliest_finish,   \* dictionaries of _find_critical_path
    project_duration,
    latest_start, latest_finish,
    critical_tasks,     \* list returned by _find_critical_path
    raised,             \* the exception that left the call ("" when none)
    response            \* the dictionary the call returned

vars == <<tasks, duration, TaskDependency, start_date, end_date, project,
          resources, assignments, self, peer, optimization_type, pc,
          earliest_start, earliest_finish, project_duration,
          latest_start, latest_finish, critical_tasks, raised, response>>

db == <<tasks, duration, TaskDependency, start_date, end_date, project,
        resources, assignments>>

cpm == <<earliest_start, earliest_finish, project_duration,
         latest_start, latest_finish, critical_tasks>>

\* The optimizer object and the locals of the request that the variables
\* above follow.
request == <<self, optimization_type, pc, cpm, raised, response>>

\* -------------------------------------------------- ScheduleOptimizer.__init__

\* self.optimization_methods: type -> bound method
optimization_methods ==
    [t \in {"time", "cost", "resource"} |->
        CASE t = "time" -> "_optimize_for_time"
          [] t = "cost" -> "_optimize_for_cost"
          [] t = "resource" -> "_optimize_for_resources"]

\* A payload with nothing in it.
NoResults ==
    [keys |-> {}, critical_path |-> <<>>, optimizations |-> <<>>,
     metrics |-> <<>>]

NoResponse ==
    [success |-> FALSE, error |-> "", optimization_type |-> "",
     results |-> NoResults]


\* ------------------------------------------------------ _find_critical_path

\* task_dict = {task.id: task for task in tasks}: its keys
task_dict(ts) == Range(ts)

\* TaskDependency.query.filter(TaskDependency.task_id.in_(task_dict.keys())).all()
dependencies(ts, table) == {dep \in table : dep.task_id \in task_dict(ts)}

\* Forward pass, lines 155-176: the loop over `tasks` from position i on, with
\* the dictionaries built so far.  task_dict[dep.predecessor_task_id] raises
\* KeyError for a predecessor that is not a task of the project; the
\* dictionaries then hold what the earlier iterations stored.
RECURSIVE ForwardFrom(_, _, _, _, _, _)
ForwardFrom(i, ts, dur, deps, es, ef) ==
    IF i > Len(ts) THEN [raised |-> "", earliest_start |-> es, earliest_finish |-> ef]
    ELSE
      LET task == ts[i]
          mine == {dep \in deps : dep.task_id = task}
      IN IF mine = {}
         THEN \* start task
              ForwardFrom(i + 1, ts, dur, deps,
                          Put(es, task, 0), Put(ef, task, dur[task]))
         ELSE IF \E dep \in mine : dep.predecessor_task_id \notin task_dict(ts)
         THEN [raised |-> "KeyError", earliest_start |-> es, earliest_finish |-> ef]
         ELSE \* dependent task
              LET max_predecessor_finish ==
                      Max({0} \cup {Get(ef, dep.predecessor_task_id, 0) + dep.lag_days :
                                        dep \in mine})
              IN ForwardFrom(i + 1, ts, dur, deps,
                             Put(es, task, max_predecessor_finish),
                             Put(ef, task, max_predecessor_finish + dur[task]))

ForwardPass(ts, dur, deps) == ForwardFrom(1, ts, dur, deps, EmptyDict, EmptyDict)

\* Mutant of ProjectDuration: the finishes are added up instead of maximised.
ProjectDurationSummed(ef) == Sum(ef, DOMAIN ef)

\* line 179: max(earliest_finish.values()) if earliest_finish else 0
ProjectDuration(ef) ==
    IF DOMAIN ef = {} THEN 0 ELSE Max({ef[k] : k \in DOMAIN ef})

\* Backward pass, lines 183-200: the loop over reversed(tasks) from position i
\* down.  Every row of `deps` has its task_id in task_dict, so
\* task_dict[dep.task_id] never fails.
RECURSIVE BackwardFrom(_, _, _, _, _, _, _)
BackwardFrom(i, ts, dur, deps, pd, ls, lf) ==
    IF i < 1 THEN [latest_start |-> ls, latest_finish |-> lf]
    ELSE
      LET task == ts[i]
          succ == {dep \in deps : dep.predecessor_task_id = task}
      IN IF succ = {}
         THEN \* end task
              BackwardFrom(i - 1, ts, dur, deps, pd,
                           Put(ls, task, pd - dur[task]), Put(lf, task, pd))
         ELSE \* predecessor task
              LET min_successor_start ==
                      Min({Get(ls, dep.task_id, pd) - dep.lag_days : dep \in succ})
              IN BackwardFrom(i - 1, ts, dur, deps, pd,
                              Put(ls, task, min_successor_start - dur[task]),
                              Put(lf, task, min_successor_start))

BackwardPass(ts, dur, deps, pd) ==
    BackwardFrom(Len(ts), ts, dur, deps, pd, EmptyDict, EmptyDict)

\* lines 205-206: float_time = latest_start - earliest_start; if float_time <= 0
IsCritical(ls, es, task) == ls[task] - es[task] <= 0

\* lines 203-209: the critical tasks, in the order of `tasks`
CriticalTasks(ts, ls, es) == SelectSeq(ts, LAMBDA task : IsCritical(ls, es, task))

\* ------------------------------------------------------- _optimize_for_time

Abs(x) == IF x < 0 THEN -x ELSE x

\* for i, task1 in enumerate(tasks): for task2 in tasks[i+1:]: the pairs of
\* positions, in the order the loops visit them
RECURSIVE PairsFrom(_, _, _)
PairsFrom(i, j, n) ==
    IF i >= n THEN <<>>
    ELSE IF j > n THEN PairsFrom(i + 1, i + 2, n)
    ELSE <<<<i, j>>>> \o PairsFrom(i, j + 1, n)

Pairs(n) == PairsFrom(1, 2, n)

\* lines 214-222: the predecessors of each task, as set(dependency_map.get(id, []))
dependency_map(ts, table) ==
    [t \in Range(ts) |->
        {d.predecessor_task_id : d \in {r \in dependencies(ts, table) : r.task_id = t}}]

\* lines 227-233: neither is a predecessor of the other and they have no
\* predecessor in common
Independent(task1, task2, map) ==
    /\ task1 \notin map[task2]
    /\ task2 \notin map[task1]
    /\ map[task1] \cap map[task2] = {}

\* line 236: abs((task1.start_date - task2.end_date).days) <= 1
Sequential(task1, task2, sd, ed) == Abs(sd[task1] - ed[task2]) <= 1

\* lines 211-247 (days saved in tenths)
find_parallelization_opportunities(ts, dur, sd, ed, table) ==
    LET map == dependency_map(ts, table)
        found == SelectSeq(Pairs(Len(ts)), LAMBDA p :
                     /\ Independent(ts[p[1]], ts[p[2]], map)
                     /\ Sequential(ts[p[1]], ts[p[2]], sd, ed))
        opportunities ==
            [k \in DOMAIN found |->
                [type |-> "parallelization",
                 task_ids |-> <<ts[found[k][1]], ts[found[k][2]]>>,
                 time_saved_days |->
                     Tenths(Min({dur[ts[found[k][1]]], dur[ts[found[k][2]]]})),
                 impact |-> "medium",
                 implementation_effort |-> "low"]]
    IN Take(opportunities, 5)

\* list.sort(key=time_saved_days, reverse=True): stable, largest first
RECURSIVE SortedBySavings(_)
SortedBySavings(s) ==
    IF Len(s) = 0 THEN <<>>
    ELSE LET i == Min({k \in DOMAIN s :
                          \A j \in DOMAIN s :
                              s[j].time_saved_days <= s[k].time_saved_days})
         IN <<s[i]>> \o SortedBySavings(SubSeq(s, 1, i - 1)
                                          \o SubSeq(s, i + 1, Len(s)))

\* Mutant of find_compression_opportunities: the candidates are cut to 3 in
\* the order of the task list, unsorted.
find_compression_opportunities_unsorted(ts, dur) ==
    LET long == SelectSeq(ts, LAMBDA task : dur[task] > 3)
        opportunities ==
            [k \in DOMAIN long |->
                LET max_compression == Min({2 * dur[long[k]], Tenths(2)})
                IN [type |-> "fast_tracking",
                    task_id |-> long[k],
                    time_saved_days |-> max_compression,
                    additional_cost |-> dur[long[k]] * 100,
                    impact |-> IF max_compression >= Tenths(2)
                               THEN "high" ELSE "medium",
                    implementation_effort |-> "medium"]]
    IN Take(opportunities, 3)

\* lines 249-269 (days saved in tenths: min(duration * 0.2, 2))
find_compression_opportunities(ts, dur) ==
    LET long == SelectSeq(ts, LAMBDA task : dur[task] > 3)
        opportunities ==
            [k \in DOMAIN long |->
                LET max_compression == Min({2 * dur[long[k]], Tenths(2)})
                IN [type |-> "fast_tracking",
                    task_id |-> long[k],
                    time_saved_days |-> max_compression,
                    additional_cost |-> dur[long[k]] * 100,
                    impact |-> IF max_compression >= Tenths(2)
                               THEN "high" ELSE "medium",
                    implementation_effort |-> "medium"]]
    IN Take(SortedBySavings(opportunities), 3)

\* lines 283-287: the assignments of the same resource to tasks of the list
\* that are not critical
other_assignments(assignment, critical_task, critical, ts, table) ==
    SelectSeq(table, LAMBDA a :
        /\ a.resource_id = assignment.resource_id
        /\ a.task_id # critical_task
        /\ a.task_id \in Range(ts) \ Range(critical))

\* lines 275-299 (days saved in tenths)
RECURSIVE ReallocationsFrom(_, _, _, _)
ReallocationsFrom(i, critical, ts, table) ==
    IF i > Len(critical) THEN <<>>
    ELSE LET critical_task == critical[i]
             movable == SelectSeq(table, LAMBDA a :
                 /\ a.task_id = critical_task
                 /\ Len(other_assignments(a, critical_task, critical, ts, table)) > 0)
             here == [k \in DOMAIN movable |->
                 [type |-> "resource_reallocation",
                  from_task_id |->
                      other_assignments(movable[k], critical_task,
                                        critical, ts, table)[1].task_id,
                  to_task_id |-> critical_task,
                  resource_id |-> movable[k].resource_id,
                  time_saved_days |-> Tenths(1),
                  impact |-> "high",
                  implementation_effort |-> "medium"]]
         IN here \o ReallocationsFrom(i + 1, critical, ts, table)

\* lines 271-301
optimize_critical_path_resources(critical, ts, table) ==
    Take(ReallocationsFrom(1, critical, ts, table), 3)

\* lines 64-82 (days in tenths)
TimeResult(critical_path, optimizations, proj) ==
    LET potential_savings == SumOf("time_saved_days", optimizations)
        current == Tenths(proj.end_date - proj.start_date)
        metrics ==
            [potential_time_savings_days |-> potential_savings,
             current_duration_days |-> current,
             optimized_duration_days |->
                 IF current - potential_savings > Tenths(1)
                 THEN current - potential_savings ELSE Tenths(1)]
    IN [keys |-> {"critical_path", "optimizations"} \cup DOMAIN metrics,
        critical_path |-> critical_path,
        optimizations |-> optimizations,
        metrics |-> metrics]

\* lines 46-62: the three lists, in the order they are appended
TimeOptimizations(critical_path, ts, dur, sd, ed, deps, table) ==
    find_parallelization_opportunities(ts, dur, sd, ed, deps)
      \o find_compression_opportunities(ts, dur)
      \o optimize_critical_path_resources(critical_path, ts, table)

\* ------------------------------------------------------- _optimize_for_cost

\* lines 89-91: the assignments of the project's tasks
resource_assignments(ts, table) ==
    SelectSeq(table, LAMBDA a : a.task_id \in Range(ts))

\* lines 309-310: sum(a.quantity for a in assignments if a.resource_id == resource.id)
total_assigned(resource, rows) ==
    Sum([i \in DOMAIN rows |-> rows[i].quantity],
        {i \in DOMAIN rows : rows[i].resource_id = resource.id})

\* lines 313-315: total_assigned / resource.total_quantity < 0.7
UnderUtilized(assigned, total) == 10 * assigned < 7 * total

\* Mutant of OverUtilized: the bound is included.
OverUtilizedFrom(assigned, total) == 20 * assigned >= 19 * total

\* lines 313, 326: total_assigned / resource.total_quantity > 0.95
OverUtilized(assigned, total) == 20 * assigned > 19 * total

\* Mutant of BufferTenPercent: no buffer.
BufferNone(assigned) == 10 * assigned

\* line 321: total_assigned * 1.1, in tenths
BufferTenPercent(assigned) == 11 * assigned

\* line 332: total_assigned * 1.2, in tenths
BufferTwentyPercent(assigned) == 12 * assigned

\* lines 316-324 (quantities and money in tenths)
reduce_resource(resource, assigned) ==
    [type |-> "reduce_resource",
     resource_id |-> resource.id,
     current_quantity |-> resource.total_quantity,
     recommended_quantity |-> BufferTenPercent(assigned),
     cost_saved |-> IF Truthy(resource.unit_cost)
                    THEN (Tenths(resource.total_quantity)
                            - BufferTenPercent(assigned)) * resource.unit_cost
                    ELSE 0,
     impact |-> "medium"]

\* lines 327-335 (quantities and money in tenths)
increase_resource(resource, assigned) ==
    [type |-> "increase_resource",
     resource_id |-> resource.id,
     current_quantity |-> resource.total_quantity,
     recommended_quantity |-> BufferTwentyPercent(assigned),
     additional_cost |-> IF Truthy(resource.unit_cost)
                         THEN (BufferTwentyPercent(assigned)
                                 - Tenths(resource.total_quantity)) * resource.unit_cost
                         ELSE 0,
     impact |-> "high"]

\* lines 308-335, one turn of the loop: what the resource appends
utilization_of(resource, rows) ==
    LET assigned == total_assigned(resource, rows)
    IN IF resource.total_quantity > 0
       THEN IF UnderUtilized(assigned, resource.total_quantity)
            THEN <<reduce_resource(resource, assigned)>>
            ELSE IF OverUtilized(assigned, resource.total_quantity)
            THEN <<increase_resource(resource, assigned)>>
            ELSE <<>>
       ELSE <<>>

\* lines 303-337.  `resource.total_quantity > 0` (line 312) raises TypeError
\* on a NULL total_quantity.
RECURSIVE UtilizationFrom(_, _, _)
UtilizationFrom(i, rs, rows) ==
    IF i > Len(rs) THEN [raised |-> "", optimizations |-> <<>>]
    ELSE IF rs[i].total_quantity = None
    THEN [raised |-> "TypeError", optimizations |-> <<>>]
    ELSE LET rest == UtilizationFrom(i + 1, rs, rows)
         IN IF rest.raised # "" THEN rest
            ELSE [raised |-> "",
                  optimizations |-> utilization_of(rs[i], rows) \o rest.optimizations]

optimize_resource_utilization(rs, rows) == UtilizationFrom(1, rs, rows)

\* lines 339-361: ResourceAssignment.query.filter_by(task_id=task.id) counts
\* the rows of the table
optimize_task_scheduling_for_cost(ts, table) ==
    LET resource_intensive_tasks ==
            SelectSeq(ts, LAMBDA task :
                Cardinality({i \in DOMAIN table : table[i].task_id = task}) >= 3)
    IN IF Len(resource_intensive_tasks) >= 2
       THEN <<[type |-> "schedule_adjustment",
               task_ids |-> Take(resource_intensive_tasks, 3),
               cost_saved |-> Tenths(5000),
               impact |-> "medium",
               implementation_effort |-> "low"]>>
       ELSE <<>>

\* line 368
high_cost_resources(rs) ==
    SelectSeq(rs, LAMBDA r : Truthy(r.unit_cost) /\ r.unit_cost > 100)

\* lines 372-375: r.unit_cost < resource.unit_cost * 0.8
similar_resources(resource, rs) ==
    SelectSeq(rs, LAMBDA r : /\ r.type = resource.type
                             /\ Truthy(r.unit_cost)
                             /\ 10 * r.unit_cost < 8 * resource.unit_cost)

\* line 378: min(similar_resources, key=unit_cost), the first of the minima
cheapest(similar) ==
    similar[Min({i \in DOMAIN similar :
                    \A j \in DOMAIN similar :
                        similar[i].unit_cost <= similar[j].unit_cost})]

\* lines 370-389.  The total_quantity of every resource is a number here:
\* line 312 has raised otherwise.
RECURSIVE SubstitutionsFrom(_, _, _)
SubstitutionsFrom(i, high, rs) ==
    IF i > Len(high) THEN <<>>
    ELSE LET resource == high[i]
             similar == similar_resources(resource, rs)
             here == IF Len(similar) > 0
                     THEN <<[type |-> "resource_substitution",
                             from_resource_id |-> resource.id,
                             to_resource_id |-> cheapest(similar).id,
                             cost_saved |->
                                 Tenths((resource.unit_cost
                                           - cheapest(similar).unit_cost)
                                        * resource.total_quantity),
                             impact |-> "medium",
                             implementation_effort |-> "low"]>>
                     ELSE <<>>
         IN here \o SubstitutionsFrom(i + 1, high, rs)

\* lines 363-391
find_resource_substitutions(rs) ==
    Take(SubstitutionsFrom(1, high_cost_resources(rs), rs), 2)

\* line 109: sum(r.unit_cost * r.total_quantity for r in resources if r.unit_cost)
current_cost(rs) ==
    Sum([i \in DOMAIN rs |-> Tenths(rs[i].unit_cost * rs[i].total_quantity)],
        {i \in DOMAIN rs : Truthy(rs[i].unit_cost)})

\* lines 112-118 (money in tenths; savings_percentage as the fraction
\* numerator / denominator)
CostResult(optimizations, rs) ==
    LET potential_savings == SumOf("cost_saved", optimizations)
        current == current_cost(rs)
        metrics ==
            [potential_cost_savings |-> potential_savings,
             current_estimated_cost |-> current,
             optimized_estimated_cost |->
                 IF current - potential_savings > 0
                 THEN current - potential_savings ELSE 0,
             savings_percentage |->
                 IF current > 0
                 THEN [numerator |-> potential_savings * 100, denominator |-> current]
                 ELSE [numerator |-> 0, denominator |-> 1]]
    IN [keys |-> {"optimizations"} \cup DOMAIN metrics,
        critical_path |-> <<>>,
        optimizations |-> optimizations,
        metrics |-> metrics]

\* lines 84-118
OptimizeForCost(ts, rs, table) ==
    LET utilization == optimize_resource_utilization(rs, resource_assignments(ts, table))
    IN IF utilization.raised # ""
       THEN [raised |-> utilization.raised, results |-> CostResult(<<>>, <<>>)]
       ELSE [raised |-> "",
             results |-> CostResult(utilization.optimizations
                                      \o optimize_task_scheduling_for_cost(ts, table)
                                      \o find_resource_substitutions(rs),
                                    rs)]

\* -------------------------------------------------- _optimize_for_resources

\* lines 393-412
optimize_resource_leveling(ts, rs) ==
    <<[type |-> "resource_leveling", impact |-> "medium",
       implementation_effort |-> "high"]>>

\* lines 419-422, read through set(task_resources.get(id, [])) on line 429
task_resources(ts, table) ==
    [t \in Range(ts) |->
        {table[i].resource_id : i \in {k \in DOMAIN table : table[k].task_id = t}}]

\* Mutant of overlap: only the first comparison is made.
overlap_from_one_side(task1, task2, sd, ed) == sd[task1] <= ed[task2]

\* line 428
overlap(task1, task2, sd, ed) ==
    sd[task1] <= ed[task2] /\ sd[task2] <= ed[task1]

\* lines 424-433: the conflicting pairs, as positions in the task list
conflicts(ts, sd, ed, table) ==
    SelectSeq(Pairs(Len(ts)), LAMBDA p :
        /\ overlap(ts[p[1]], ts[p[2]], sd, ed)
        /\ task_resources(ts, table)[ts[p[1]]]
             \cap task_resources(ts, table)[ts[p[2]]] # {})

\* lines 414-446.  conflicting_resources is list(common_resources): its
\* elements, as a set.
resolve_resource_conflicts(ts, sd, ed, table) ==
    LET top == Take(conflicts(ts, sd, ed, table), 3)
    IN [k \in DOMAIN top |->
           [type |-> "resolve_conflict",
            task_ids |-> <<ts[top[k][1]], ts[top[k][2]]>>,
            conflicting_resources |->
                task_resources(ts, table)[ts[top[k][1]]]
                  \cap task_resources(ts, table)[ts[top[k][2]]],
            impact |-> "high",
            implementation_effort |-> "medium"]]

\* lines 453-464 (recommended_increase in tenths: total_quantity * 0.2)
capacity_of(resource) ==
    IF /\ Truthy(resource.available_quantity)
       /\ Truthy(resource.total_quantity)
       /\ 10 * resource.available_quantity < resource.total_quantity
    THEN <<[type |-> "increase_capacity",
            resource_id |-> resource.id,
            current_available |-> resource.available_quantity,
            recommended_increase |-> 2 * resource.total_quantity,
            impact |-> "high"]>>
    ELSE <<>>

\* lines 448-466
RECURSIVE CapacityFrom(_, _)
CapacityFrom(i, rs) ==
    IF i > Len(rs) THEN <<>>
    ELSE capacity_of(rs[i]) \o CapacityFrom(i + 1, rs)

optimize_resource_capacity(rs) == CapacityFrom(1, rs)

\* lines 468-483
analyze_resource_utilization(rs) ==
    LET count(type) == Cardinality({i \in DOMAIN rs : rs[i].type = type})
    IN [total_resources |-> Len(rs),
        resource_breakdown |-> [labor |-> count("labor"),
                                equipment |-> count("equipment"),
                                material |-> count("material")]]

\* lines 485-504
recommend_resource_adjustments(rs, ts) ==
    <<[category |-> "capacity_planning", priority |-> "medium"],
      [category |-> "scheduling", priority |-> "high"]>>

\* lines 120-145
ResourceResult(ts, sd, ed, rs, table) ==
    LET metrics ==
            [resource_utilization_analysis |-> analyze_resource_utilization(rs),
             recommended_adjustments |-> recommend_resource_adjustments(rs, ts)]
    IN [keys |-> {"optimizations"} \cup DOMAIN metrics,
        critical_path |-> <<>>,
        optimizations |-> optimize_resource_leveling(ts, rs)
                            \o resolve_resource_conflicts(ts, sd, ed, table)
                            \o optimize_resource_capacity(rs),
        metrics |-> metrics]

\* -------------------------------------------------- optimize_project_schedule

\* Mutant of UnsupportedType: the membership test is dropped.
UnsupportedTypeUnchecked(type) == FALSE

\* line 17: optimization_type not in self.optimization_methods
UnsupportedType(type) == type \notin DOMAIN self.optimization_methods

\* Mutant of NoTasks: the emptiness test is dropped.
NoTasksUnchecked(ts) == FALSE

\* line 23: not tasks
NoTasks(ts) == Len(ts) = 0

NoTasksResponse ==
    [success |-> FALSE, error |-> "No tasks found for optimization",
     optimization_type |-> "",
     results |-> NoResults]

\* lines 33-39
SuccessResponse(type, results) ==
    [success |-> TRUE, error |-> "", optimization_type |-> type, results |-> results]

\* lines 15-31: the checks and the dispatch.  The call either raises
\* ValueError, returns the failure dictionary, or enters the optimizer
\* looked up in self.optimization_methods (a lookup that raises KeyError for
\* a key the dictionary lacks).
optimize_project_schedule(type) ==
    /\ pc = "idle"
    /\ optimization_type' = type
    /\ IF UnsupportedType(type)
       THEN /\ pc' = "raised"
            /\ raised' = "ValueError: Unsupported optimization type"
            /\ response' = response
       ELSE IF NoTasks(tasks)
       THEN /\ pc' = "returned"
            /\ raised' = raised
            /\ response' = NoTasksResponse
       ELSE IF type \notin DOMAIN self.optimization_methods
       THEN /\ pc' = "raised"
            /\ raised' = "KeyError"
            /\ response' = response
       ELSE /\ pc' = self.optimization_methods[type]
            /\ raised' = raised
            /\ response' = response
    /\ UNCHANGED <<db, self, peer, cpm>>

\* _find_critical_path lines 147-176, entered from _optimize_for_time line 44
forward_pass ==
    /\ pc = "_optimize_for_time"
    /\ LET fw == ForwardPass(tasks, duration, dependencies(tasks, TaskDependency))
       IN /\ earliest_start' = fw.earliest_start
          /\ earliest_finish' = fw.earliest_finish
          /\ raised' = fw.raised
          /\ pc' = IF fw.raised = "" THEN "forward_done" ELSE "raised"
    /\ UNCHANGED <<db, self, peer, optimization_type, project_duration,
                   latest_start, latest_finish, critical_tasks, response>>

\* _find_critical_path lines 178-200
backward_pass ==
    /\ pc = "forward_done"
    /\ LET pd == ProjectDuration(earliest_finish)
           bw == BackwardPass(tasks, duration,
                              dependencies(tasks, TaskDependency), pd)
       IN /\ project_duration' = pd
          /\ latest_start' = bw.latest_start
          /\ latest_finish' = bw.latest_finish
    /\ pc' = "backward_done"
    /\ UNCHANGED <<db, self, peer, optimization_type, earliest_start, earliest_finish,
                   critical_tasks, raised, response>>

\* Mutant of optimize_for_time: the optimizer keeps the critical path it
\* found.
optimize_for_time_keeping ==
    /\ pc = "backward_done"
    /\ LET critical_path == CriticalTasks(tasks, latest_start, earliest_start)
       IN /\ critical_tasks' = critical_path
          /\ self' = [optimization_methods |-> self.optimization_methods,
                      critical_path |-> critical_path]
          /\ response' = SuccessResponse(optimization_type,
                 TimeResult(critical_path,
                            TimeOptimizations(critical_path, tasks, duration,
                                              start_date, end_date,
                                              TaskDependency, assignments),
                            project))
    /\ pc' = "returned"
    /\ UNCHANGED <<db, peer, optimization_type, earliest_start, earliest_finish,
                   project_duration, latest_start, latest_finish, raised>>

\* _find_critical_path lines 202-209, then the rest of _optimize_for_time
\* (lines 46-82: the critical_path list is built from critical_path in its
\* order) and the return of optimize_project_schedule (lines 33-39).
optimize_for_time ==
    /\ pc = "backward_done"
    /\ LET critical_path == CriticalTasks(tasks, latest_start, earliest_start)
       IN /\ critical_tasks' = critical_path
          /\ response' = SuccessResponse(optimization_type,
                 TimeResult(critical_path,
                            TimeOptimizations(critical_path, tasks, duration,
                                              start_date, end_date,
                                              TaskDependency, assignments),
                            project))
    /\ pc' = "returned"
    /\ UNCHANGED <<db, self, peer, optimization_type, earliest_start, earliest_finish,
                   project_duration, latest_start, latest_finish, raised>>

\* _optimize_for_cost lines 84-118 and the return of lines 33-39
optimize_for_cost ==
    /\ pc = "_optimize_for_cost"
    /\ LET cost == OptimizeForCost(tasks, resources, assignments)
       IN IF cost.raised # ""
          THEN /\ pc' = "raised"
               /\ raised' = cost.raised
               /\ response' = response
          ELSE /\ pc' = "returned"
               /\ raised' = raised
               /\ response' = SuccessResponse(optimization_type, cost.results)
    /\ UNCHANGED <<db, self, peer, cpm, optimization_type>>

\* _optimize_for_resources lines 120-145 and the return of lines 33-39
optimize_for_resources ==
    /\ pc = "_optimize_for_resources"
    /\ response' = SuccessResponse(optimization_type,
           ResourceResult(tasks, start_date, end_date, resources, assignments))
    /\ pc' = "returned"
    /\ UNCHANGED <<db, self, peer, cpm, optimization_type, raised>>

\* src/blueprints/scheduling.py lines 148-163: the handler answers (the
\* dictionary, or status 500 with the exception's text) and the call's
\* locals are gone; the next request builds a new ScheduleOptimizer (line 156).
optimize_schedule ==
    /\ pc \in {"returned", "raised"}
    /\ pc' = "idle"
    /\ self' = [optimization_methods |-> optimization_methods]
    /\ optimization_type' = ""
    /\ earliest_start' = EmptyDict
    /\ earliest_finish' = EmptyDict
    /\ project_duration' = 0
    /\ latest_start' = EmptyDict
    /\ latest_finish' = EmptyDict
    /\ critical_tasks' = <<>>
    /\ raised' = ""
    /\ response' = NoResponse
    /\ UNCHANGED <<db, peer>>

\* ------------------------------------------------------- a second request

\* Another request (src/blueprints/scheduling.py lines 148-163 in another
\* thread): its own ScheduleOptimizer and its own locals, before its call.
\* `overlapped` records that it took a step while the first request was
\* inside its call.
Waiting ==
    [self |-> [optimization_methods |-> optimization_methods],
     optimization_type |-> "", pc |-> "idle",
     earliest_start |-> EmptyDict, earliest_finish |-> EmptyDict,
     project_duration |-> 0,
     latest_start |-> EmptyDict, latest_finish |-> EmptyDict,
     critical_tasks |-> <<>>, raised |-> "", response |-> NoResponse,
     overlapped |-> FALSE]

\* lines 15-31 on the locals l
Call(l, type) ==
    IF type \notin DOMAIN l.self.optimization_methods
    THEN [l EXCEPT !.optimization_type = type, !.pc = "raised",
                   !.raised = "ValueError: Unsupported optimization type"]
    ELSE IF NoTasks(tasks)
    THEN [l EXCEPT !.optimization_type = type, !.pc = "returned",
                   !.response = NoTasksResponse]
    ELSE [l EXCEPT !.optimization_type = type,
                   !.pc = l.self.optimization_methods[type]]

\* lines 147-176 on the locals l
Forward(l) ==
    LET fw == ForwardPass(tasks, duration, dependencies(tasks, TaskDependency))
    IN [l EXCEPT !.earliest_start = fw.earliest_start,
                 !.earliest_finish = fw.earliest_finish,
                 !.raised = fw.raised,
                 !.pc = IF fw.raised = "" THEN "forward_done" ELSE "raised"]

\* lines 178-200 on the locals l
Backward(l) ==
    LET pd == ProjectDuration(l.earliest_finish)
        bw == BackwardPass(tasks, duration,
                           dependencies(tasks, TaskDependency), pd)
    IN [l EXCEPT !.project_duration = pd,
                 !.latest_start = bw.latest_start,
                 !.latest_finish = bw.latest_finish,
                 !.pc = "backward_done"]

\* lines 202-209, 46-82 and 33-39 on the locals l
Time(l) ==
    LET critical_path == CriticalTasks(tasks, l.latest_start, l.earliest_start)
    IN [l EXCEPT !.critical_tasks = critical_path,
                 !.response = SuccessResponse(l.optimization_type,
                     TimeResult(critical_path,
                                TimeOptimizations(critical_path, tasks, duration,
                                                  start_date, end_date,
                                                  TaskDependency, assignments),
                                project)),
                 !.pc = "returned"]

\* lines 84-118 and 33-39 on the locals l
Cost(l) ==
    LET cost == OptimizeForCost(tasks, resources, assignments)
    IN IF cost.raised # ""
       THEN [l EXCEPT !.pc = "raised", !.raised = cost.raised]
       ELSE [l EXCEPT !.pc = "returned",
                      !.response = SuccessResponse(l.optimization_type,
                                                   cost.results)]

\* lines 120-145 and 33-39 on the locals l
Resources(l) ==
    [l EXCEPT !.pc = "returned",
              !.response = SuccessResponse(l.optimization_type,
                  ResourceResult(tasks, start_date, end_date,
                                 resources, assignments))]

\* The next step of a call with locals l (type is the argument of the call,
\* read by its first step).
Step(l, type) ==
    CASE l.pc = "idle" -> Call(l, type)
      [] l.pc = "_optimize_for_time" -> Forward(l)
      [] l.pc = "forward_done" -> Backward(l)
      [] l.pc = "backward_done" -> Time(l)
      [] l.pc = "_optimize_for_cost" -> Cost(l)
      [] l.pc = "_optimize_for_resources" -> Resources(l)

\* The first request is inside its call.
InCall == pc \notin {"idle", "returned", "raised"}

\* Mutant of peer_step: the argument of the call is kept where the other
\* request reads its own.
peer_step_sharing ==
    /\ peer.pc \notin {"returned", "raised"}
    /\ \E type \in RequestedTypes :
          /\ peer' = [Step(peer, type) EXCEPT
                          !.overlapped = peer.overlapped \/ InCall]
          /\ optimization_type' = peer'.optimization_type
    /\ UNCHANGED <<db, self, pc, cpm, raised, response>>

\* A step of the second request, at any moment of the first one.
peer_step ==
    /\ peer.pc \notin {"returned", "raised"}
    /\ \E type \in RequestedTypes :
          peer' = [Step(peer, type) EXCEPT
                       !.overlapped = peer.overlapped \/ InCall]
    /\ UNCHANGED <<db, request>>

\* The second request is answered; another one takes its place.
peer_schedule ==
    /\ peer.pc \in {"returned", "raised"}
    /\ peer' = Waiting
    /\ UNCHANGED <<db, request>>

\* ------------------------------------------------------------ specification

\* The database before the call.  The query of line 21 has no ORDER BY: the
\* rows come in primary-key order.  A predecessor may have been created
\* after its successor, so it may come later in the list than the task that
\* depends on it.
\* The state of a request before the call: a new ScheduleOptimizer
\* (__init__, lines 8-13) and no locals yet.
Constructed ==
    /\ self = [optimization_methods |-> optimization_methods]
    /\ optimization_type = ""
    /\ pc = "idle"
    /\ earliest_start = EmptyDict
    /\ earliest_finish = EmptyDict
    /\ project_duration = 0
    /\ latest_start = EmptyDict
    /\ latest_finish = EmptyDict
    /\ critical_tasks = <<>>
    /\ raised = ""
    /\ response = NoResponse

Init ==
    /\ tasks \in {Ascending(P) : P \in SUBSET TaskIds}
    /\ duration \in [Range(tasks) -> Durations]
    /\ TaskDependency \in SubsetsUpTo(DependencyRows, MaxDeps)
    /\ start_date = [t \in Range(tasks) |-> 1]
    /\ end_date = [t \in Range(tasks) |-> 1]
    /\ project = [start_date |-> 1, end_date |-> 1]
    /\ resources = <<>>
    /\ assignments = <<>>
    /\ Constructed
    /\ peer = Waiting

Next ==
    \/ \E type \in RequestedTypes : optimize_project_schedule(type)
    \/ forward_pass
    \/ backward_pass
    \/ optimize_for_time
    \/ optimize_for_cost
    \/ optimize_for_resources
    \/ optimize_schedule

Spec == Init /\ [][Next]_vars

\* ------------------------------------------- specification: cost requests

\* The task ids that the rows of resource_assignments name: task 1 is the
\* project's task, task 2 a task of another project.
AssignedTaskIds == {1, 2}

\* The project's resources, in primary-key order.  available_quantity is
\* not read by the cost optimizer.
ResourceLists ==
    UNION {{rs \in [1..k -> [id : 1..MaxResources, type : ResourceTypes,
                             unit_cost : UnitCosts,
                             total_quantity : TotalQuantities,
                             available_quantity : {None}]] :
               \A i \in 1..k : rs[i].id = i} : k \in 0..MaxResources}

\* The rows a resource_assignments table may hold.  resource_id is a foreign
\* key into the whole resources table: the id after the project's last one
\* is a resource of another project.
AssignmentRows ==
    [task_id : AssignedTaskIds, resource_id : 1..(MaxResources + 1),
     quantity : Quantities]

AssignmentTables == UNION {[1..k -> AssignmentRows] : k \in 0..MaxAssignments}

InitCost ==
    /\ tasks = <<1>>
    /\ duration = [t \in {1} |-> 1]
    /\ TaskDependency = {}
    /\ start_date = [t \in {1} |-> 1]
    /\ end_date = [t \in {1} |-> 1]
    /\ project = [start_date |-> 1, end_date |-> 1]
    /\ resources \in ResourceLists
    /\ assignments \in AssignmentTables
    /\ Constructed
    /\ peer = Waiting

NextCost ==
    \/ optimize_project_schedule("cost")
    \/ optimize_for_cost
    \/ optimize_schedule

SpecCost == InitCost /\ [][NextCost]_vars

\* --------------------------------------- specification: resource requests

\* The days on which a task may start and end.
Days == {1, 2}

\* The resources that tasks are assigned.
ConflictResourceIds == {1, 2}

\* A resource_assignments table with one row for each pair <<task,
\* resource>> of P, in primary-key order.
RECURSIVE RowsInOrder(_)
RowsInOrder(P) ==
    IF P = {} THEN <<>>
    ELSE LET first == CHOOSE p \in P :
                 \A q \in P : p[1] < q[1] \/ (p[1] = q[1] /\ p[2] <= q[2])
         IN <<[task_id |-> first[1], resource_id |-> first[2],
               quantity |-> Min(Quantities)]>>
              \o RowsInOrder(P \ {first})

\* A project of MaxConflictTasks tasks, each with a start day and an end day
\* not before it, and two resources that the tasks are assigned in any way.
InitResource ==
    /\ tasks = Ascending(1..MaxConflictTasks)
    /\ duration = [t \in 1..MaxConflictTasks |-> 1]
    /\ TaskDependency = {}
    /\ start_date \in [1..MaxConflictTasks -> Days]
    /\ end_date \in [1..MaxConflictTasks -> Days]
    /\ \A t \in 1..MaxConflictTasks : start_date[t] <= end_date[t]
    /\ project = [start_date |-> Min(Days), end_date |-> Max(Days)]
    /\ resources = [i \in ConflictResourceIds |->
                       [id |-> i, type |-> "labor", unit_cost |-> Max(UnitCosts),
                        total_quantity |-> Max(TotalQuantities),
                        available_quantity |-> Max(TotalQuantities)]]
    /\ assignments \in {RowsInOrder(P) :
                            P \in SUBSET ((1..MaxConflictTasks) \X ConflictResourceIds)}
    /\ Constructed
    /\ peer = Waiting

NextResource ==
    \/ optimize_project_schedule("resource")
    \/ optimize_for_resources
    \/ optimize_schedule

SpecResource == InitResource /\ [][NextResource]_vars

\* ------------------------------------- specification: concurrent requests

\* A project of two tasks, at most one dependency between them, one
\* resource and at most one assignment; two requests on it.
InitConcurrent ==
    /\ tasks = <<1, 2>>
    /\ duration \in [{1, 2} -> {1, 2}]
    /\ TaskDependency \in
          {{}} \cup {{[task_id |-> a, predecessor_task_id |-> b,
                       dependency_type |-> "FS", lag_days |-> 0]} :
                        <<a, b>> \in {<<1, 2>>, <<2, 1>>}}
    /\ start_date = [t \in {1, 2} |-> 1]
    /\ end_date = [t \in {1, 2} |-> 1]
    /\ project = [start_date |-> 1, end_date |-> 1]
    /\ resources = <<[id |-> 1, type |-> "labor", unit_cost |-> Max(UnitCosts),
                      total_quantity |-> Max(TotalQuantities),
                      available_quantity |-> None]>>
    /\ assignments \in {<<>>, <<[task_id |-> 1, resource_id |-> 1,
                                 quantity |-> Max(Quantities)]>>}
    /\ Constructed
    /\ peer = Waiting

NextConcurrent ==
    \/ Next
    \/ peer_step
    \/ peer_schedule

SpecConcurrent == InitConcurrent /\ [][NextConcurrent]_vars

\* ----------------------------------- specification: time requests, windows

\* The project whose tasks have windows on the calendar.
ScheduledTaskIds == {1, 2, 3, 4}

\* The windows <<start_date, end_date>> a task may have: three two-day
\* windows, each beginning the day after the one before ends.
TaskWindows == {<<1, 2>>, <<3, 4>>, <<5, 6>>}

\* task.duration of a task with a window
WindowDurations == {1, 2}

\* The dependency rows between the tasks with windows, as
\* <<predecessor, successor>>: finish-to-start, no lag.
WindowEdges == {<<1, 2>>, <<2, 3>>, <<1, 3>>}

WindowDependencyTables ==
    {{[task_id |-> e[2], predecessor_task_id |-> e[1],
       dependency_type |-> "FS", lag_days |-> 0] : e \in E} :
        E \in SUBSET WindowEdges}

\* The project's planned start and end (src/blueprints/projects.py:43
\* rejects end_date <= start_date).
ProjectWindows == {<<1, 6>>, <<1, 31>>}

InitTime ==
    /\ tasks = Ascending(ScheduledTaskIds)
    /\ duration \in [ScheduledTaskIds -> WindowDurations]
    /\ TaskDependency \in WindowDependencyTables
    /\ \E w \in [ScheduledTaskIds -> TaskWindows] :
          /\ start_date = [t \in ScheduledTaskIds |-> w[t][1]]
          /\ end_date = [t \in ScheduledTaskIds |-> w[t][2]]
    /\ \E w \in ProjectWindows : project = [start_date |-> w[1], end_date |-> w[2]]
    /\ resources = <<>>
    /\ assignments = <<>>
    /\ Constructed
    /\ peer = Waiting

NextTime ==
    \/ optimize_project_schedule("time")
    \/ forward_pass
    \/ backward_pass
    \/ optimize_for_time
    \/ optimize_schedule

SpecTime == InitTime /\ [][NextTime]_vars

\* --------------------------------- specification: time requests, durations

\* task.duration around the tests of _find_compression_opportunities
\* (duration > 3, duration * 0.2 >= 2).
CompressionDurations == {3, 4, 9, 10, 12}

\* One resource assigned to the first two tasks, or no assignment.
ReallocationTables ==
    {<<>>, <<[task_id |-> 1, resource_id |-> 1, quantity |-> Min(Quantities)],
             [task_id |-> 2, resource_id |-> 1, quantity |-> Min(Quantities)]>>}

InitCompression ==
    /\ tasks = Ascending(ScheduledTaskIds)
    /\ duration \in [ScheduledTaskIds -> CompressionDurations]
    /\ TaskDependency = {}
    /\ start_date = [t \in ScheduledTaskIds |-> 1]
    /\ end_date = [t \in ScheduledTaskIds |-> 1]
    /\ \E w \in ProjectWindows : project = [start_date |-> w[1], end_date |-> w[2]]
    /\ resources = <<>>
    /\ assignments \in ReallocationTables
    /\ Constructed
    /\ peer = Waiting

SpecCompression == InitCompression /\ [][NextTime]_vars

\* ------------------------- specification: resource requests, capacities

\* The number of resources that the project may have.
CapacityResourceCounts == {0, 1, 2}

\* Resource.available_quantity: absent, none left, just below and just at
\* a tenth of a total_quantity of 100.
AvailableQuantities == {None, 0, 9, 10}

\* The project's resources, in primary-key order, with their capacities.
CapacityResourceLists ==
    UNION {{rs \in [1..k -> [id : 1..k, type : ResourceTypes,
                             unit_cost : {Max(UnitCosts)},
                             total_quantity : TotalQuantities,
                             available_quantity : AvailableQuantities]] :
               \A i \in 1..k : rs[i].id = i} : k \in CapacityResourceCounts}

InitCapacity ==
    /\ tasks = <<1>>
    /\ duration = [t \in {1} |-> 1]
    /\ TaskDependency = {}
    /\ start_date = [t \in {1} |-> 1]
    /\ end_date = [t \in {1} |-> 1]
    /\ project = [start_date |-> 1, end_date |-> 1]
    /\ resources \in CapacityResourceLists
    /\ assignments = <<>>
    /\ Constructed
    /\ peer = Waiting

SpecCapacity == InitCapacity /\ [][NextResource]_vars

\* ------------------------------ specification: cost requests, prices

\* Resource.type of the priced resources
PricedResourceTypes == {"labor", "equipment"}

\* Resource.unit_cost: free, below the threshold of 100 (line 368), and two
\* prices above it, the first exactly 80% of the second.
Prices == {0, 90, 160, 200}

\* Resource.total_quantity of the first resource; the others have the
\* largest one.
PricedQuantities == {50, 100}

\* The number of resources that the project may have.
PricedResourceCounts == {0, 1, 2, 3, 4}

\* The rows that the resource with primary key i may be.
PricedResource(i) ==
    [id : {i}, type : PricedResourceTypes, unit_cost : Prices,
     total_quantity : IF i = 1 THEN PricedQuantities
                      ELSE {Max(PricedQuantities)},
     available_quantity : {None}]

\* The lists of k resources, in primary-key order.
RECURSIVE PricedResourceListsOf(_)
PricedResourceListsOf(k) ==
    IF k = 0 THEN {<<>>}
    ELSE {Append(rs, r) : rs \in PricedResourceListsOf(k - 1),
                          r \in PricedResource(k)}

\* The project's resources, in primary-key order, with their prices.
PricedResourceLists ==
    UNION {PricedResourceListsOf(k) : k \in PricedResourceCounts}

\* Three rows of resource_assignments for each of the two tasks, all of
\* resource 1, 90 units together; or no row.
StaggeredAssignments ==
    [i \in 1..6 |-> [task_id |-> IF i <= 3 THEN 1 ELSE 2,
                     resource_id |-> 1, quantity |-> 15]]

InitPricing ==
    /\ tasks = <<1, 2>>
    /\ duration = [t \in {1, 2} |-> 1]
    /\ TaskDependency = {}
    /\ start_date = [t \in {1, 2} |-> 1]
    /\ end_date = [t \in {1, 2} |-> 1]
    /\ project = [start_date |-> 1, end_date |-> 1]
    /\ resources \in PricedResourceLists
    /\ assignments \in {<<>>, StaggeredAssignments}
    /\ Constructed
    /\ peer = Waiting

SpecPricing == InitPricing /\ [][NextCost]_vars

\* =========================================================================
\* Properties
\* =========================================================================

\* The call has been made.
Called == pc # "idle"

\* The call was for type 'time' and returned its success dictionary: all the
\* dictionaries of _find_critical_path are complete.
TimeReturned ==
    pc = "returned" /\ optimization_type = "time" /\ response.success

\* The rows _find_critical_path reads.
ProjectDeps == dependencies(tasks, TaskDependency)

ValidDurations == \A t \in Range(tasks) : duration[t] >= 0

\* predecessor -> successor pairs
Edges(deps) == {<<dep.predecessor_task_id, dep.task_id>> : dep \in deps}

Compose(R, E) ==
    {<<a, c>> \in TaskIds \X TaskIds :
        \E b \in TaskIds : <<a, b>> \in R /\ <<b, c>> \in E}

RECURSIVE Closure(_, _)
Closure(R, E) ==
    LET R2 == R \cup Compose(R, E)
    IN IF R2 = R THEN R ELSE Closure(R2, E)

HasCycle(deps) ==
    \E t \in TaskIds : <<t, t>> \in Closure(Edges(deps), Edges(deps))

MissingReference(ts, deps) ==
    \E dep \in deps : dep.predecessor_task_id \notin task_dict(ts)

\* A valid acyclic snapshot: what the critical path method is defined on.
ValidAcyclic ==
    /\ ValidDurations
    /\ ~MissingReference(tasks, ProjectDeps)
    /\ ~HasCycle(ProjectDeps)

Float(t) == latest_start[t] - earliest_start[t]

Critical == Range(critical_tasks)

\* The rows of a finish-to-start, zero-lag chain ch[1] -> ch[2] -> ...
ChainRows(ch) ==
    {[task_id |-> ch[i + 1], predecessor_task_id |-> ch[i],
      dependency_type |-> "FS", lag_days |-> 0] : i \in 1..(Len(ch) - 1)}

\* All the orders of the ids of S.
RECURSIVE AllOrders(_)
AllOrders(S) ==
    IF S = {} THEN {<<>>}
    ELSE UNION {{<<x>> \o rest : rest \in AllOrders(S \ {x})} : x \in S}

\* The project's tasks form one linear chain, in some order of the list.
IsLinearChain ==
    /\ Len(tasks) >= 1
    /\ \E ch \in AllOrders(Range(tasks)) : ProjectDeps = ChainRows(ch)

\* C1: for a linear chain of n tasks joined by finish-to-start dependencies
\* with zero lag, wherever the tasks stand in the task list, all n tasks are
\* critical and the project duration is the sum of the n durations.
C1_ChainAllCriticalSumOfDurations ==
    (TimeReturned /\ ValidDurations /\ IsLinearChain) =>
        /\ Critical = Range(tasks)
        /\ project_duration = Sum(duration, Range(tasks))

\* C2: for every task of every acyclic input (any list order, any lag), the
\* float latest_start - earliest_start is at least 0.
C2_FloatNonNegative ==
    (TimeReturned /\ ValidAcyclic) => \A t \in Range(tasks) : Float(t) >= 0

\* C3: the critical path returned is exactly the set of tasks whose float is
\* 0: a task is returned if and only if latest_start - earliest_start = 0.
C3_CriticalIffZeroFloat ==
    (TimeReturned /\ ValidAcyclic) =>
        \A t \in Range(tasks) : (t \in Critical) <=> (Float(t) = 0)

\* C4: when the dependencies contain a cycle, a call of type 'time' fails
\* with a cycle-detected error and never returns a success result with a
\* critical_path list.
C4_CycleRaisesNoCriticalPath ==
    (optimization_type = "time" /\ pc \in {"returned", "raised"}
        /\ tasks # <<>> /\ ValidDurations
        /\ ~MissingReference(tasks, ProjectDeps) /\ HasCycle(ProjectDeps)) =>
        /\ pc = "raised"
        /\ raised = "CycleDetectedError"
        /\ ~(response.success /\ "critical_path" \in response.results.keys)

\* Exactly two tasks in the project and no dependency row between them.
TwoIndependentTasks ==
    /\ Len(tasks) = 2
    /\ \A dep \in TaskDependency :
          ~({dep.task_id, dep.predecessor_task_id} \subseteq Range(tasks))

\* C5: for two tasks with no dependency relation between them (and no other
\* task), the project duration is the larger of the two durations, not their
\* sum, and the task with the larger duration is critical.
C5_IndependentPairMaxDuration ==
    (TimeReturned /\ TwoIndependentTasks) =>
        /\ project_duration = Max({duration[t] : t \in Range(tasks)})
        /\ \A t \in Range(tasks) :
              duration[t] = Max({duration[u] : u \in Range(tasks)}) => t \in Critical

\* C5 witness: two independent tasks of different positive durations were
\* scheduled; the duration is the larger one, not the sum, and only the
\* longer task is critical.
C5_Witness ==
    /\ TimeReturned /\ TwoIndependentTasks
    /\ duration[tasks[1]] = 1 /\ duration[tasks[2]] = 2
    /\ project_duration = 2
    /\ critical_tasks = <<tasks[2]>>

\* C6: the critical set is contiguous along dependency edges: a critical
\* task with a predecessor has a critical predecessor, a critical task with a
\* successor has a critical successor.  Stated for the snapshots on which the
\* critical path method promises it: acyclic, durations and lags >= 0.
C6_CriticalSetContiguous ==
    (TimeReturned /\ ValidAcyclic /\ \A dep \in ProjectDeps : dep.lag_days >= 0) =>
        \A t \in Critical :
            /\ (\E dep \in ProjectDeps : dep.task_id = t) =>
                  (\E dep \in ProjectDeps :
                      dep.task_id = t /\ dep.predecessor_task_id \in Critical)
            /\ (\E dep \in ProjectDeps : dep.predecessor_task_id = t) =>
                  (\E dep \in ProjectDeps :
                      dep.predecessor_task_id = t /\ dep.task_id \in Critical)

\* C7: for every snapshot, also one with no task, a call with a type outside
\* {time, cost, resource} raises the unsupported-type error and returns
\* nothing.
C7_UnsupportedTypeRaises ==
    (Called /\ optimization_type \notin {"time", "cost", "resource"}) =>
        /\ pc = "raised"
        /\ raised = "ValueError: Unsupported optimization type"
        /\ response = NoResponse

\* C7 witness: type 'budget' on a project without tasks raised.
C7_Witness ==
    /\ optimization_type = "budget" /\ tasks = <<>>
    /\ pc = "raised" /\ raised = "ValueError: Unsupported optimization type"

ForwardPassOver ==
    /\ optimization_type = "time" /\ tasks # <<>>
    /\ pc \notin {"idle", "_optimize_for_time"}

\* C9: when a dependency names a predecessor that is not in the task list,
\* the engine fails with the typed missing-reference error before any
\* forward-pass value is computed; no untyped lookup error, no silent skip.
C9_MissingReferenceTypedError ==
    (ForwardPassOver /\ MissingReference(tasks, ProjectDeps)) =>
        /\ pc = "raised"
        /\ raised = "MissingReferenceError"
        /\ earliest_start = EmptyDict /\ earliest_finish = EmptyDict

\* C10: when a task has a negative duration, the critical path computation
\* raises a validation error before the forward pass begins: no earliest or
\* latest value and no critical path come from a negative duration.
C10_NegativeDurationRejected ==
    (ForwardPassOver /\ ~ValidDurations) =>
        /\ pc = "raised"
        /\ raised = "InvalidDurationError"
        /\ earliest_start = EmptyDict /\ latest_start = EmptyDict
        /\ critical_tasks = <<>>

\* ------------------------------------------------- the cost optimizer

\* The call was for type 'cost' and has returned its result.
CostReturned ==
    /\ pc = "returned"
    /\ optimization_type = "cost"
    /\ response.success

\* The rows of resource_assignments that assign resource r to a task of the
\* project.
AssignmentsOf(r) ==
    {i \in DOMAIN assignments :
        /\ assignments[i].resource_id = r.id
        /\ assignments[i].task_id \in Range(tasks)}

\* The sum of the assigned quantities of resource r.
AssignedQuantity(r) ==
    Sum([i \in DOMAIN assignments |-> assignments[i].quantity], AssignmentsOf(r))

\* The suggestions of the given type that the result holds for resource r.
SuggestionsFor(r, type) ==
    {k \in DOMAIN response.results.optimizations :
        /\ response.results.optimizations[k].type = type
        /\ response.results.optimizations[k].resource_id = r.id}

\* C11: when the cost call returns, every resource with total_quantity > 0
\* and utilization below 70% has exactly one reduce suggestion; its
\* recommended quantity is assigned x 1.1, its cost_saved is
\* (total - assigned x 1.1) x unit_cost, and that is strictly positive when
\* unit_cost > 0.
C11_UnderUtilizedReduceSuggestion ==
    CostReturned =>
        \A i \in DOMAIN resources :
            LET r == resources[i]
                assigned == AssignedQuantity(r)
            IN (r.total_quantity > 0 /\ 100 * assigned < 70 * r.total_quantity) =>
                /\ Cardinality(SuggestionsFor(r, "reduce_resource")) = 1
                /\ \A k \in SuggestionsFor(r, "reduce_resource") :
                      LET s == response.results.optimizations[k]
                      IN /\ s.recommended_quantity = 11 * assigned
                         /\ s.cost_saved
                              = (10 * r.total_quantity - 11 * assigned) * r.unit_cost
                         /\ (r.unit_cost > 0 => s.cost_saved > 0)

\* total = 100 and assigned = 50 give a recommended quantity of 55 and a
\* positive saving.
C11_Witness ==
    /\ CostReturned
    /\ \E i \in DOMAIN resources :
          /\ resources[i].total_quantity = 100
          /\ resources[i].unit_cost > 0
          /\ AssignedQuantity(resources[i]) = 50
          /\ \E k \in SuggestionsFor(resources[i], "reduce_resource") :
                /\ response.results.optimizations[k].recommended_quantity = Tenths(55)
                /\ response.results.optimizations[k].cost_saved > 0

\* C12: when the cost call returns, every resource with total_quantity > 0
\* and utilization above 95% has exactly one increase suggestion, with
\* recommended quantity assigned x 1.2, and a resource whose utilization is
\* in [70%, 95%] has no utilization suggestion.
C12_OverUtilizedIncreaseSuggestion ==
    CostReturned =>
        \A i \in DOMAIN resources :
            LET r == resources[i]
                assigned == AssignedQuantity(r)
            IN /\ (r.total_quantity > 0 /\ 100 * assigned > 95 * r.total_quantity) =>
                    /\ Cardinality(SuggestionsFor(r, "increase_resource")) = 1
                    /\ \A k \in SuggestionsFor(r, "increase_resource") :
                          response.results.optimizations[k].recommended_quantity
                              = 12 * assigned
               /\ (/\ r.total_quantity > 0
                   /\ 70 * r.total_quantity <= 100 * assigned
                   /\ 100 * assigned <= 95 * r.total_quantity) =>
                    /\ SuggestionsFor(r, "reduce_resource") = {}
                    /\ SuggestionsFor(r, "increase_resource") = {}

\* A resource used above 95% has got its increase suggestion.
C12_Witness ==
    /\ CostReturned
    /\ \E i \in DOMAIN resources :
          /\ resources[i].total_quantity > 0
          /\ 100 * AssignedQuantity(resources[i]) > 95 * resources[i].total_quantity
          /\ SuggestionsFor(resources[i], "increase_resource") # {}

\* C13: when the cost call returns, a resource that no row of
\* resource_assignments names has neither a reduce nor an increase
\* suggestion in the result.
C13_UnassignedResourceNoSuggestion ==
    CostReturned =>
        \A i \in DOMAIN resources :
            (\A a \in DOMAIN assignments :
                assignments[a].resource_id # resources[i].id) =>
                /\ SuggestionsFor(resources[i], "reduce_resource") = {}
                /\ SuggestionsFor(resources[i], "increase_resource") = {}

\* --------------------------------------------- the resource optimizer

\* The call was for type 'resource' and has returned its result.
ResourceReturned ==
    /\ pc = "returned"
    /\ optimization_type = "resource"
    /\ response.success

\* The two tasks have a day in common.
DateRangesOverlap(t1, t2) ==
    \E d \in Days : /\ start_date[t1] <= d /\ d <= end_date[t1]
                    /\ start_date[t2] <= d /\ d <= end_date[t2]

\* The ids of the resources assigned to the task.
AssignedResources(t) ==
    {assignments[i].resource_id :
        i \in {k \in DOMAIN assignments : assignments[k].task_id = t}}

\* The pairs of tasks of the project that overlap and share a resource.
ConflictingPairs ==
    {pair \in SUBSET Range(tasks) :
        /\ Cardinality(pair) = 2
        /\ \E t1, t2 \in pair :
              /\ t1 # t2
              /\ DateRangesOverlap(t1, t2)
              /\ AssignedResources(t1) \cap AssignedResources(t2) # {}}

\* The conflicts that the result reports.
ReportedConflicts ==
    SelectSeq(response.results.optimizations,
              LAMBDA s : s.type = "resolve_conflict")

\* C14: when the resource call returns, every reported conflict names two
\* tasks whose date ranges overlap and whose resource-id sets intersect,
\* together with exactly the shared ids (so an overlapping pair that shares
\* no resource is not reported); no pair is reported twice; and the
\* conflicting pairs are all reported, up to the limit of 3.
C14_ConflictsAreOverlappingSharingPairs ==
    ResourceReturned =>
        /\ \A k \in DOMAIN ReportedConflicts :
              LET s == ReportedConflicts[k]
                  t1 == s.task_ids[1]
                  t2 == s.task_ids[2]
              IN /\ Len(s.task_ids) = 2
                 /\ {t1, t2} \in ConflictingPairs
                 /\ s.conflicting_resources
                      = AssignedResources(t1) \cap AssignedResources(t2)
        /\ \A k, l \in DOMAIN ReportedConflicts :
              Range(ReportedConflicts[k].task_ids)
                  = Range(ReportedConflicts[l].task_ids) => k = l
        /\ Len(ReportedConflicts)
              = IF Cardinality(ConflictingPairs) < 3
                THEN Cardinality(ConflictingPairs) ELSE 3

\* More than 3 pairs conflict and 3 are reported, while some overlapping
\* pair that shares no resource is left out.
C14_Witness ==
    /\ ResourceReturned
    /\ Cardinality(ConflictingPairs) > 3
    /\ Len(ReportedConflicts) = 3
    /\ \E t1, t2 \in Range(tasks) :
          /\ t1 # t2
          /\ DateRangesOverlap(t1, t2)
          /\ AssignedResources(t1) \cap AssignedResources(t2) = {}
          /\ AssignedResources(t1) # {}
          /\ AssignedResources(t2) # {}

\* ------------------------------------------------------ the result payload

CurrentMetricKeys == {"current_duration_days", "current_estimated_cost"}

OptimizedMetricKeys == {"optimized_duration_days", "optimized_estimated_cost"}

SavingsKeys == {"potential_time_savings_days", "potential_cost_savings"}

\* C16: the payload of every successful call, of whichever supported type,
\* has a numeric current metric, a numeric optimized metric and a savings
\* figure.
C16_PayloadHasCurrentOptimizedSavings ==
    (pc = "returned" /\ response.success) =>
        LET metrics == response.results.metrics
        IN /\ \E k \in CurrentMetricKeys \cap DOMAIN metrics : metrics[k] \in Int
           /\ \E k \in OptimizedMetricKeys \cap DOMAIN metrics : metrics[k] \in Int
           /\ \E k \in SavingsKeys \cap DOMAIN metrics : metrics[k] \in Int

\* ---------------------------------------------------------------- the frame

\* C17: no step of a call changes a project, task, dependency, resource or
\* assignment record, nor the optimizer object with its dispatch table, and
\* the optimizer of the next request is as the one before.
C17_CallLeavesRecordsAndDispatchUnchanged ==
    [][db' = db /\ self' = self]_vars

\* A call of type 'time' has run to its return on a project with tasks.
C17_Witness ==
    /\ TimeReturned
    /\ tasks # <<>>
    /\ critical_tasks # <<>>
    /\ self.optimization_methods = optimization_methods

\* ------------------------------------------- the passes, rule by rule

\* Lags and durations are not negative.
NoLeadTime ==
    /\ ValidAcyclic
    /\ \A dep \in ProjectDeps : dep.lag_days >= 0

\* The earliest start that the dependency row imposes on its task.
Offset(dep) ==
    CASE dep.dependency_type = "FS" ->
             earliest_finish[dep.predecessor_task_id] + dep.lag_days
      [] dep.dependency_type = "SS" ->
             earliest_start[dep.predecessor_task_id] + dep.lag_days
      [] dep.dependency_type = "FF" ->
             earliest_finish[dep.predecessor_task_id] + dep.lag_days
               - duration[dep.task_id]
      [] dep.dependency_type = "SF" ->
             earliest_start[dep.predecessor_task_id] + dep.lag_days
               - duration[dep.task_id]

PredecessorRows(t) == {dep \in ProjectDeps : dep.task_id = t}

SuccessorRows(t) == {dep \in ProjectDeps : dep.predecessor_task_id = t}

\* C19: after the forward pass (valid acyclic snapshot, no negative lag), a
\* task without predecessors has earliest_start 0, a task with predecessors
\* has the largest offset that its dependency rows dictate, computed from
\* the predecessors' values, and earliest_finish = earliest_start + duration.
C19_ForwardPassRule ==
    (TimeReturned /\ NoLeadTime) =>
        \A t \in Range(tasks) :
            /\ earliest_start[t]
                 = IF PredecessorRows(t) = {} THEN 0
                   ELSE Max({Offset(dep) : dep \in PredecessorRows(t)})
            /\ earliest_finish[t] = earliest_start[t] + duration[t]

\* C20: after the backward pass (valid acyclic snapshot, no negative lag),
\* the project duration is the largest earliest_finish, a task without
\* successors has latest_finish equal to it, a task with successors has the
\* smallest of its successors' latest_start - lag, and
\* latest_start = latest_finish - duration.
C20_BackwardPassRule ==
    (TimeReturned /\ NoLeadTime) =>
        /\ project_duration = Max({earliest_finish[t] : t \in Range(tasks)})
        /\ \A t \in Range(tasks) :
              /\ latest_finish[t]
                   = IF SuccessorRows(t) = {} THEN project_duration
                     ELSE Min({latest_start[dep.task_id] - dep.lag_days :
                                  dep \in SuccessorRows(t)})
              /\ latest_start[t] = latest_finish[t] - duration[t]

\* ------------------------------------------------------ concurrent requests

\* A call of the given type run from its start to its end with nothing else
\* running.
RECURSIVE RunAlone(_, _)
RunAlone(l, type) ==
    IF l.pc \in {"returned", "raised"} THEN l
    ELSE RunAlone(Step(l, type), type)

\* How a call with locals l has ended.
Outcome(l) == <<l.pc, l.raised, l.response>>

\* C18: whatever the interleaving of the steps of two requests, a call that
\* has ended has ended as the same call run alone: same returned
\* dictionary, or same exception.
C18_ConcurrentCallsEndAsAlone ==
    /\ pc \in {"returned", "raised"} =>
          <<pc, raised, response>> = Outcome(RunAlone(Waiting, optimization_type))
    /\ peer.pc \in {"returned", "raised"} =>
          Outcome(peer) = Outcome(RunAlone(Waiting, peer.optimization_type))

\* Two calls of different types have both returned, the second having
\* taken steps while the first was inside its call.
C18_Witness ==
    /\ TimeReturned
    /\ peer.pc = "returned"
    /\ peer.optimization_type = "cost"
    /\ peer.response.success
    /\ peer.overlapped

\* ------------------------------------------------- the critical path list

\* The position of task t in the critical_path list of the result.
PositionInCriticalPath(t) ==
    CHOOSE i \in DOMAIN response.results.critical_path :
        response.results.critical_path[i] = t

\* C21: the critical_path list of the time result is in topological order:
\* for every dependency whose predecessor and successor are both critical,
\* the predecessor stands before the successor, whatever the order of the
\* task list.
C21_CriticalPathTopological ==
    (TimeReturned /\ ValidAcyclic) =>
        \A dep \in ProjectDeps :
            ({dep.predecessor_task_id, dep.task_id}
                \subseteq Range(response.results.critical_path)) =>
                PositionInCriticalPath(dep.predecessor_task_id)
                    < PositionInCriticalPath(dep.task_id)

\* C30: when the project has tasks and its dependencies are acyclic (any
\* list order, any lag, durations >= 0), the critical path that the time
\* result reports is not empty.
C30_CriticalPathNotEmpty ==
    (TimeReturned /\ ValidAcyclic /\ tasks # <<>>) =>
        response.results.critical_path # <<>>

\* ------------------------------------------------------ the time optimizer

\* The parallelization suggestions of the result, in their order.
ParallelSuggestions ==
    SelectSeq(response.results.optimizations,
              LAMBDA s : s.type = "parallelization")

\* The pairs <<a, c>> of tasks joined by a path of rows of E.
RECURSIVE PathsOver(_, _, _)
PathsOver(R, E, N) ==
    LET R2 == R \cup {<<a, c>> \in N \X N :
                         \E b \in N : <<a, b>> \in R /\ <<b, c>> \in E}
    IN IF R2 = R THEN R ELSE PathsOver(R2, E, N)

\* One of the two tasks depends on the other, directly or through other
\* tasks.
RelatedByDependency(t1, t2) ==
    LET paths == PathsOver(Edges(ProjectDeps), Edges(ProjectDeps), Range(tasks))
    IN <<t1, t2>> \in paths \/ <<t2, t1>> \in paths

\* One task ends at most a day away from the start of the other.
AdjacentWindows(t1, t2) ==
    \/ Abs(start_date[t2] - end_date[t1]) <= 1
    \/ Abs(start_date[t1] - end_date[t2]) <= 1

\* The pair may run in parallel.
MayRunInParallel(t1, t2) ==
    /\ t1 # t2
    /\ ~RelatedByDependency(t1, t2)
    /\ AdjacentWindows(t1, t2)

\* The result suggests running the pair in parallel.
SuggestedInParallel(t1, t2) ==
    \E k \in DOMAIN ParallelSuggestions :
        Range(ParallelSuggestions[k].task_ids) = {t1, t2}

\* The days (in tenths) that running the pair in parallel saves.
ParallelSaving(t1, t2) == Tenths(Min({duration[t1], duration[t2]}))

\* C22: a pair of tasks has a parallelization suggestion exactly when no
\* dependency relates the two, directly or transitively, and their windows
\* are adjacent in either order (a pair may only be missing where the list
\* is full); the time saved is the smaller of the two durations.
C22_ParallelIffUnrelatedAndAdjacent ==
    TimeReturned =>
        /\ \A k \in DOMAIN ParallelSuggestions :
              LET s == ParallelSuggestions[k]
              IN /\ Len(s.task_ids) = 2
                 /\ MayRunInParallel(s.task_ids[1], s.task_ids[2])
                 /\ s.time_saved_days
                      = ParallelSaving(s.task_ids[1], s.task_ids[2])
        /\ \A t1, t2 \in Range(tasks) :
              MayRunInParallel(t1, t2) =>
                  SuggestedInParallel(t1, t2) \/ Len(ParallelSuggestions) = 5

\* C23: the parallelization list holds at most 5 suggestions, ordered by
\* time saved from highest to lowest, and no pair that qualifies and is left
\* out saves more than a pair of the list.
C23_ParallelTopFiveHighestFirst ==
    TimeReturned =>
        /\ Len(ParallelSuggestions) <= 5
        /\ \A k, l \in DOMAIN ParallelSuggestions :
              k < l => ParallelSuggestions[k].time_saved_days
                          >= ParallelSuggestions[l].time_saved_days
        /\ \A t1, t2 \in Range(tasks) :
              (MayRunInParallel(t1, t2) /\ ~SuggestedInParallel(t1, t2)) =>
                  \A k \in DOMAIN ParallelSuggestions :
                      ParallelSaving(t1, t2)
                          <= ParallelSuggestions[k].time_saved_days

\* The compression suggestions of the result, in their order.
CompressionSuggestions ==
    SelectSeq(response.results.optimizations,
              LAMBDA s : s.type = "fast_tracking")

\* The tasks that may be compressed.
CompressionCandidates == {t \in Range(tasks) : duration[t] > 3}

\* min(duration x 0.2, 2) days, in tenths.
CompressionSaving(t) ==
    IF 2 * duration[t] < Tenths(2) THEN 2 * duration[t] ELSE Tenths(2)

\* The tasks that the compression suggestions name.
CompressedTasks ==
    {CompressionSuggestions[k].task_id : k \in DOMAIN CompressionSuggestions}

\* C24: every compression suggestion is for a task of duration > 3, saves
\* min(duration x 0.2, 2) days and has impact 'high' exactly when that is at
\* least 2 days (duration >= 10), 'medium' otherwise; at most 3 are
\* returned, no task twice, a candidate is left out only of a full list,
\* and no candidate left out saves more than a returned one.
C24_CompressionTopThree ==
    TimeReturned =>
        /\ \A k \in DOMAIN CompressionSuggestions :
              LET s == CompressionSuggestions[k]
              IN /\ s.task_id \in CompressionCandidates
                 /\ s.time_saved_days = CompressionSaving(s.task_id)
                 /\ s.impact = IF s.time_saved_days >= Tenths(2)
                               THEN "high" ELSE "medium"
                 /\ (s.impact = "high") <=> (duration[s.task_id] >= 10)
        /\ Len(CompressionSuggestions) <= 3
        /\ Cardinality(CompressedTasks) = Len(CompressionSuggestions)
        /\ CompressedTasks # CompressionCandidates =>
              Len(CompressionSuggestions) = 3
        /\ \A t \in CompressionCandidates \ CompressedTasks :
              \A k \in DOMAIN CompressionSuggestions :
                  CompressionSaving(t) <= CompressionSuggestions[k].time_saved_days

\* Four tasks may be compressed and three are returned, of 'high' and of
\* 'medium' impact; the one left out is listed before a returned one and
\* saves less than each of them.
C24_Witness ==
    /\ TimeReturned
    /\ Cardinality(CompressionCandidates) = 4
    /\ Len(CompressionSuggestions) = 3
    /\ \E k, l \in DOMAIN CompressionSuggestions :
          /\ CompressionSuggestions[k].impact = "high"
          /\ CompressionSuggestions[l].impact = "medium"
    /\ \E t \in CompressionCandidates \ CompressedTasks :
          /\ \E u \in CompressedTasks : t < u
          /\ \A k \in DOMAIN CompressionSuggestions :
                CompressionSaving(t) < CompressionSuggestions[k].time_saved_days

\* The sum of the days (in tenths) that the suggestions of the result save.
SuggestedTimeSavings ==
    Sum([k \in DOMAIN response.results.optimizations |->
            response.results.optimizations[k].time_saved_days],
        DOMAIN response.results.optimizations)

\* C25: in the time result, potential_time_savings_days is the sum of
\* time_saved_days over the returned suggestions, and
\* optimized_duration_days is max(1, current duration - savings), at least
\* 1, the current duration being the project duration of the critical path
\* computation (the largest earliest_finish).
C25_OptimizedDurationFromCriticalPath ==
    TimeReturned =>
        LET metrics == response.results.metrics
            remaining == Tenths(project_duration)
                           - metrics.potential_time_savings_days
        IN /\ metrics.potential_time_savings_days = SuggestedTimeSavings
           /\ metrics.optimized_duration_days
                = IF remaining > Tenths(1) THEN remaining ELSE Tenths(1)
           /\ metrics.optimized_duration_days >= Tenths(1)

\* ------------------------------------------- capacities and leveling

\* C26: when the resource call returns, every resource with total quantity
\* > 0 whose available quantity, 0 included, is below 10% of the total has
\* one capacity suggestion, recommending an increase of 20% of the total;
\* a resource at or above 10% has none.
C26_LowAvailabilityCapacitySuggestion ==
    ResourceReturned =>
        \A i \in DOMAIN resources :
            LET r == resources[i]
            IN (r.total_quantity > 0 /\ r.available_quantity # None) =>
                  IF 100 * r.available_quantity < 10 * r.total_quantity
                  THEN /\ Cardinality(SuggestionsFor(r, "increase_capacity")) = 1
                       /\ \A k \in SuggestionsFor(r, "increase_capacity") :
                             response.results.optimizations[k].recommended_increase
                                 = 2 * r.total_quantity
                  ELSE SuggestionsFor(r, "increase_capacity") = {}

\* The leveling suggestions of the result.
LevelingSuggestions ==
    SelectSeq(response.results.optimizations,
              LAMBDA s : s.type = "resource_leveling")

\* C27: the result of the resource call holds exactly one leveling
\* suggestion when the project has more than one resource, and none when it
\* has one resource or no resource.
C27_LevelingOnlyWithSeveralResources ==
    ResourceReturned =>
        Len(LevelingSuggestions) = IF Len(resources) > 1 THEN 1 ELSE 0

\* ------------------------------------------- cost figures and substitutions

\* The sum of unit_cost x total_quantity over the resources (in tenths).
EstimatedCost ==
    Sum([i \in DOMAIN resources |->
            IF resources[i].unit_cost = None THEN 0
            ELSE Tenths(resources[i].unit_cost * resources[i].total_quantity)],
        DOMAIN resources)

\* The sum of the savings that the suggestions of the result name.
SuggestedCostSavings ==
    Sum([k \in DOMAIN response.results.optimizations |->
            IF "cost_saved" \in DOMAIN response.results.optimizations[k]
            THEN response.results.optimizations[k].cost_saved ELSE 0],
        DOMAIN response.results.optimizations)

\* C28: in the cost result, current_estimated_cost is the sum of unit_cost
\* x total_quantity over the resources, optimized_estimated_cost is the
\* current cost minus the sum of the suggested savings, so that optimized +
\* saved = current, and savings_percentage is saved / current x 100 (0 when
\* the current cost is 0) and never above 100.
C28_OptimizedCostIsCurrentMinusSavings ==
    CostReturned =>
        LET metrics == response.results.metrics
            percentage == metrics.savings_percentage
        IN /\ metrics.current_estimated_cost = EstimatedCost
           /\ metrics.potential_cost_savings = SuggestedCostSavings
           /\ metrics.optimized_estimated_cost
                = metrics.current_estimated_cost - metrics.potential_cost_savings
           /\ metrics.optimized_estimated_cost + metrics.potential_cost_savings
                = metrics.current_estimated_cost
           /\ IF metrics.current_estimated_cost = 0
              THEN percentage.numerator = 0
              ELSE /\ percentage.numerator = 100 * metrics.potential_cost_savings
                   /\ percentage.denominator = metrics.current_estimated_cost
           /\ percentage.numerator <= 100 * percentage.denominator

\* The substitution suggestions of the result, in their order.
SubstitutionSuggestions ==
    SelectSeq(response.results.optimizations,
              LAMBDA s : s.type = "resource_substitution")

\* The resources of the same type as r whose unit cost is below 80% of r's
\* (positions in the list; the id of a resource is its position).
CheaperAlternatives(r) ==
    {j \in DOMAIN resources :
        /\ resources[j].type = r.type
        /\ resources[j].unit_cost # None
        /\ 100 * resources[j].unit_cost < 80 * r.unit_cost}

\* The resource costs more than 100 a unit and has a cheaper alternative.
MayBeSubstituted(r) ==
    /\ r.unit_cost # None
    /\ r.unit_cost > 100
    /\ CheaperAlternatives(r) # {}

\* The resources that the substitution suggestions replace.
SubstitutedResources ==
    {SubstitutionSuggestions[k].from_resource_id :
        k \in DOMAIN SubstitutionSuggestions}

\* C29: a resource has a substitution suggestion exactly when its unit cost
\* is above 100 and a resource of the same type costs less than 80% of it
\* (a resource may only be missing where the list is full); the replacement
\* is the cheapest such resource, the saving is (cost - replacement cost) x
\* total quantity of the resource, and at most 2 suggestions are returned,
\* no resource twice.
C29_SubstitutionByCheapestAlternative ==
    CostReturned =>
        /\ \A k \in DOMAIN SubstitutionSuggestions :
              LET s == SubstitutionSuggestions[k]
                  from == resources[s.from_resource_id]
                  to == resources[s.to_resource_id]
              IN /\ MayBeSubstituted(from)
                 /\ s.to_resource_id \in CheaperAlternatives(from)
                 /\ \A j \in CheaperAlternatives(from) :
                       to.unit_cost <= resources[j].unit_cost
                 /\ s.cost_saved
                      = Tenths((from.unit_cost - to.unit_cost) * from.total_quantity)
        /\ Len(SubstitutionSuggestions) <= 2
        /\ Cardinality(SubstitutedResources) = Len(SubstitutionSuggestions)
        /\ \A i \in DOMAIN resources :
              MayBeSubstituted(resources[i]) =>
                  \/ resources[i].id \in SubstitutedResources
                  \/ Len(SubstitutionSuggestions) = 2

=============================================================================
